---- MODULE Spec2Model ----
(***************************************************************************)
(* Model of reSIDfp's SincResampler (resample/SincResampler.cpp) and       *)
(* Integrator8580 (Integrator8580.h).                                      *)
(*                                                                         *)
(* Conventions.                                                            *)
(*  - The resampling ratio cyclesPerSampleD = clock/sampling is carried as *)
(*    an integer number u of millionths (u = 1500000 is 1.5).              *)
(*  - Samples and FIR coefficients are floats in the code; here they are   *)
(*    integers, and an output value is carried multiplied by 1024 so that  *)
(*    the linear interpolation v1 + off*(v2-v1)/1024 stays an integer.     *)
(*  - Memory the code never initialises is drawn from a set of images.     *)
(***************************************************************************)
EXTENDS Integers, Sequences, FiniteSets, TLC

VARIABLES cfg, rs, fresh, last, lastF, gh,
          cache, insts, th, cg,
          ig, tbl, ipc, ilast,
          ar

vars == <<cfg, rs, fresh, last, lastF, gh, cache, insts, th, cg, ig, tbl, ipc, ilast, ar>>

resVars == <<cfg, rs, fresh, last, lastF, gh>>
cacheVars == <<cache, insts, th, cg>>
intVars == <<ig, tbl, ipc, ilast>>

(***************************************************************************)
(* Bounds of the model.                                                    *)
(***************************************************************************)
\* log2 of the ring size (the code's RINGSIZE is a power of two)
RingBits == 4
\* input() calls per behaviour
MaxCalls == 36
\* constructions per behaviour of the cache specifications
MaxInsts == 3
\* constructions per behaviour of the two-thread specification
MaxRuns == 2
\* solve() calls per behaviour
MaxSolves == 2

RatioUnit == 10^6

RINGSIZE == 2^RingBits

\* clock/sampling ratios, in millionths: downsampling (>= 1.0) and upsampling
DownRatios == {1000000, 1171875, 1500000, 1999500}
UpRatios == {500000, 750000}
Ratios == DownRatios \cup UpRatios

\* filter orders N the design formula yields (even, at least 6)
FilterOrders == {6, 8, 10}

Max(a, b) == IF a >= b THEN a ELSE b

(***************************************************************************)
(* SincResampler: construction                                             *)
(***************************************************************************)
\* cyclesPerSample = static_cast<int>(clock / sampling * 1024.)
CyclesPerSample(u) == (u * 16) \div 15625

\* firN = static_cast<int>(N * cyclesPerSampleD) + 1; firN |= 1
FirN(N, u) ==
  LET n == (N * u) \div RatioUnit + 1
  IN IF n % 2 = 1 THEN n ELSE n + 1

\* firRES = ceil(sqrt(1.234 * (1 << BITS)) / cyclesPerSampleD), BITS = 16:
\* sqrt(1.234 * 65536) = 284.379014..., never a multiple of a ratio used here
FirRES(u) == 284379014 \div u + 1

\* assert(firN < RINGSIZE)
RingAssertion(N, u) == FirN(N, u) < RINGSIZE

Config(u, N) ==
  [u |-> u, N |-> N, cyc |-> CyclesPerSample(u),
   firN |-> FirN(N, u), firRES |-> FirRES(u)]

\* the constructions that pass the ring assertion
ValidConfigs(ratios) ==
  {Config(p[1], p[2]) : p \in {q \in ratios \X FilterOrders : RingAssertion(q[2], q[1])}}

\* stand-in for one coefficient (*firTable)[i][j]
Coef(i, j) == 1 + ((3 * i + 5 * j) % 7)

(***************************************************************************)
(* SincResampler: the sample ring                                          *)
(***************************************************************************)
Slots == 0 .. (2 * RINGSIZE - 1)

ZeroImage == [i \in Slots |-> 0]

\* what the sample array may hold where nothing was ever stored: the
\* constructor's initialiser list leaves the array alone
GarbageImage == [i \in Slots |-> 0 - (i + 1)]

UninitImages == {ZeroImage, GarbageImage}

\* values an out-of-bounds read may produce
Indeterminate == {0, 0 - 999}

RECURSIVE ConvolveFrom(_, _, _, _, _)
ConvolveFrom(sample, start, row, j, n) ==
  IF j >= n THEN 0
  ELSE sample[start + j] * Coef(row, j) + ConvolveFrom(sample, start, row, j + 1, n)

\* convolve(a, b, bLength)
convolve(sample, start, row, n) == ConvolveFrom(sample, start, row, 0, n)

\* fir(): firTableFirst = subcycle * firRES >> 10
firTableFirst(subcycle, firRES) == (subcycle * firRES) \div 1024

\* fir(): firTableOffset = (subcycle * firRES) & 0x3ff
firTableOffset(subcycle, firRES) == (subcycle * firRES) % 1024

firStartNewest(sampleIndex, firN) == sampleIndex - firN + RINGSIZE

\* fir(): sampleStart = sampleIndex - firN + RINGSIZE - 1
firStart(sampleIndex, firN) == sampleIndex - firN + RINGSIZE - 1

firWrapsNever(first, firRES) == FALSE

\* fir(): unlikely(++firTableFirst == firRES)
firWraps(first, firRES) == (first + 1 = firRES)

\* fir(subcycle): the rows and windows it selects, and its result; g is what
\* a read outside the table or the ring yields
fir(r, c, subcycle, g) ==
  LET first == firTableFirst(subcycle, c.firRES)
      off == firTableOffset(subcycle, c.firRES)
      sampleStart == firStart(r.sampleIndex, c.firN)
      wraps == firWraps(first, c.firRES)
      row2 == IF wraps THEN 0 ELSE first + 1
      start2 == IF wraps THEN sampleStart + 1 ELSE sampleStart
      inb == /\ first \in 0 .. (c.firRES - 1)
             /\ row2 \in 0 .. (c.firRES - 1)
             /\ sampleStart >= 0
             /\ start2 + c.firN - 1 < 2 * RINGSIZE
  IN [called |-> TRUE, subcycle |-> subcycle,
      row1 |-> first, row2 |-> row2,
      start1 |-> sampleStart, start2 |-> start2,
      inb |-> inb,
      value |-> IF inb
                THEN LET v1 == convolve(r.sample, sampleStart, first, c.firN)
                         v2 == convolve(r.sample, start2, row2, c.firN)
                     IN 1024 * v1 + off * (v2 - v1)
                ELSE g]

NoFir ==
  [called |-> FALSE, subcycle |-> 0, row1 |-> 0, row2 |-> 0,
   start1 |-> 0, start2 |-> 0, inb |-> TRUE, value |-> 0]

\* the constructor's initialiser list, with the array's contents img
Constructed(img) ==
  [sample |-> img, sampleIndex |-> 0, sampleOffset |-> 0, outputValue |-> 0]

\* input(): the store into both halves of the ring and the cursor's advance
inputStore(r, x) ==
  [r EXCEPT !.sample = [r.sample EXCEPT ![r.sampleIndex] = x,
                                        ![r.sampleIndex + RINGSIZE] = x],
            !.sampleIndex = (r.sampleIndex + 1) % RINGSIZE]

inputOffsetNoCarry(off, cyc) == IF off < 1024 THEN cyc - 1024 ELSE off - 1024

\* input(): the phase accumulator after the call
inputOffset(off, cyc) == IF off < 1024 THEN off + cyc - 1024 ELSE off - 1024

\* input(x): the instance after the call and what the call did
input(r, c, x, g) ==
  LET s == inputStore(r, x)
      ready == s.sampleOffset < 1024
      f == IF ready THEN fir(s, c, s.sampleOffset, g) ELSE NoFir
  IN [inst |-> [s EXCEPT !.outputValue = IF ready THEN f.value ELSE s.outputValue,
                         !.sampleOffset = inputOffset(s.sampleOffset, c.cyc)],
      res |-> [ready |-> ready, x |-> x, f |-> f]]

\* reset(): memset(sample, 0, sizeof(sample)); sampleOffset = 0
reset(r) == [r EXCEPT !.sample = ZeroImage, !.sampleOffset = 0]

NoCall == [ready |-> FALSE, x |-> 0, f |-> NoFir]

(***************************************************************************)
(* Values of the variables a specification does not use                    *)
(***************************************************************************)
IdleInst == Constructed(ZeroImage)
IdleCfg == Config(1000000, 6)
IdleGh ==
  [seq |-> 0, nIn |-> 0, nReady |-> 0, gap |-> 0, lastGap |-> 0,
   everReset |-> FALSE, phase |-> "run"]
IdleIg == [vx |-> 0, vc |-> <<0, 0>>, nVgt |-> 0, n_dac |-> 0, n |-> 0, oob |-> FALSE]
IdleILast == [kind |-> "none", idx |-> 0, vi |-> 0, vo |-> 0]
IdleAr == [n_dac |-> 0, nVgt |-> 1, vx |-> 0, vi |-> 0, done |-> FALSE, r |-> <<>>]

ResamplerIdle ==
  /\ cfg = IdleCfg /\ rs = IdleInst /\ fresh = IdleInst
  /\ last = NoCall /\ lastF = NoCall /\ gh = IdleGh
IdleCg == [overlapped |-> FALSE, created |-> <<>>, late |-> FALSE]
CacheIdle == cache = <<>> /\ insts = <<>> /\ th = <<>> /\ cg = IdleCg
IntegratorIdle == ig = IdleIg /\ tbl = "zero" /\ ipc = "idle" /\ ilast = IdleILast
ArithIdle == ar = IdleAr

(***************************************************************************)
(* One SincResampler: input() and reset() in any order.  The k-th input    *)
(* sample since construction has the value k, so that a slot's value tells *)
(* which input wrote it.                                                   *)
(***************************************************************************)
\* bookkeeping of the calls since construction or the last reset()
Counted(g, ready) ==
  [g EXCEPT !.seq = g.seq + 1,
            !.nIn = g.nIn + 1,
            !.nReady = IF ready THEN g.nReady + 1 ELSE g.nReady,
            !.gap = IF ready THEN 0 ELSE g.gap + 1,
            !.lastGap = IF ready /\ g.nReady > 0 THEN g.gap + 1 ELSE g.lastGap]

InitResampler ==
  /\ cfg \in ValidConfigs(Ratios)
  /\ \E img \in UninitImages : rs = Constructed(img)
  /\ fresh = IdleInst /\ last = NoCall /\ lastF = NoCall
  /\ gh = IdleGh
  /\ CacheIdle /\ IntegratorIdle /\ ArithIdle

Input ==
  /\ gh.seq < MaxCalls
  /\ \E g \in Indeterminate :
       LET c == input(rs, cfg, gh.seq + 1, g)
       IN /\ rs' = c.inst
          /\ last' = c.res
          /\ gh' = Counted(gh, c.res.ready)
  /\ UNCHANGED <<cfg, fresh, lastF, cacheVars, intVars, ar>>

Reset ==
  /\ rs' = reset(rs)
  /\ last' = NoCall
  /\ gh' = [gh EXCEPT !.nIn = 0, !.nReady = 0, !.gap = 0, !.lastGap = 0,
                      !.everReset = TRUE]
  /\ UNCHANGED <<cfg, fresh, lastF, cacheVars, intVars, ar>>

NextResampler == Input \/ Reset

SpecResampler == InitResampler /\ [][NextResampler]_vars

(***************************************************************************)
(* A warm instance that is reset, beside a freshly constructed one, both   *)
(* then fed the same samples.                                              *)
(***************************************************************************)
InitPair ==
  /\ cfg \in ValidConfigs(DownRatios)
  /\ \E img \in UninitImages : rs = Constructed(img)
  /\ \E img \in UninitImages : fresh = Constructed(img)
  /\ last = NoCall /\ lastF = NoCall
  /\ gh = [IdleGh EXCEPT !.phase = "warm"]
  /\ CacheIdle /\ IntegratorIdle /\ ArithIdle

WarmInput ==
  /\ gh.phase = "warm"
  /\ gh.seq < MaxCalls
  /\ \E g \in Indeterminate :
       LET c == input(rs, cfg, gh.seq + 1, g)
       IN /\ rs' = c.inst
          /\ last' = c.res
          /\ gh' = Counted(gh, c.res.ready)
  /\ UNCHANGED <<cfg, fresh, lastF, cacheVars, intVars, ar>>

WarmReset ==
  /\ gh.phase = "warm"
  /\ rs' = reset(rs)
  /\ last' = NoCall
  /\ gh' = [gh EXCEPT !.nIn = 0, !.nReady = 0, !.gap = 0, !.lastGap = 0,
                      !.everReset = TRUE, !.phase = "compare"]
  /\ UNCHANGED <<cfg, fresh, lastF, cacheVars, intVars, ar>>

PairInput ==
  /\ gh.phase = "compare"
  /\ gh.seq < MaxCalls
  /\ \E g \in Indeterminate :
       LET c == input(rs, cfg, gh.seq + 1, g)
           d == input(fresh, cfg, gh.seq + 1, g)
       IN /\ rs' = c.inst
          /\ last' = c.res
          /\ fresh' = d.inst
          /\ lastF' = d.res
          /\ gh' = Counted(gh, c.res.ready)
  /\ UNCHANGED <<cfg, cacheVars, intVars, ar>>

NextPair == WarmInput \/ WarmReset \/ PairInput

SpecPair == InitPair /\ [][NextPair]_vars

(***************************************************************************)
(* Claims about the resampler                                              *)
(***************************************************************************)
FloorPeriod == cfg.cyc \div 1024
CeilPeriod == (cfg.cyc + 1023) \div 1024

\* the slot of window 1 that lies p inputs before the newest one, p = firN - j
WrittenSinceReset(p) == p < gh.nIn

\* C1: a warm instance that was reset gives, for the same input sequence, the
\* same sequence of (ready, output value when ready) as a freshly constructed
\* instance with the same constructor arguments.
C1_ResetLikeFresh ==
  gh.phase = "compare" =>
    /\ last.ready = lastF.ready
    /\ last.ready => last.f.value = lastF.f.value

\* C2: with cyclesPerSample = c >= 1024, after n input() calls since
\* construction or reset() of which k were ready, sampleOffset = k*c - 1024*n
\* and 0 <= sampleOffset < c; the first input() is ready, k = ceil(1024*n/c),
\* and consecutive ready results are floor(c/1024) or ceil(c/1024) calls apart.
C2_NoDrift ==
  cfg.cyc >= 1024 =>
    /\ rs.sampleOffset = gh.nReady * cfg.cyc - 1024 * gh.nIn
    /\ rs.sampleOffset >= 0 /\ rs.sampleOffset < cfg.cyc
    /\ (gh.nIn >= 1 => gh.nReady >= 1)
    /\ gh.nReady = (1024 * gh.nIn + cfg.cyc - 1) \div cfg.cyc
    /\ (gh.lastGap # 0 => gh.lastGap \in {FloorPeriod, CeilPeriod})

C2_Witness ==
  /\ cfg.cyc = 1536 /\ gh.everReset
  /\ gh.nIn >= 5 /\ gh.lastGap = 2 /\ last.ready /\ rs.sampleOffset = 512

RowsInTable(f) ==
  /\ f.subcycle >= 0 /\ f.subcycle < 1024
  /\ f.row1 \in 0 .. (cfg.firRES - 1)
  /\ f.row2 \in 0 .. (cfg.firRES - 1)

\* C5 as stated: for every cyclesPerSample >= 1, above or below 1024,
\* sampleOffset is never negative, every fir(subcycle) made by input() has
\* 0 <= subcycle < 1024 and both rows it selects lie in [0, firRES).
C5_AnyRatio ==
  /\ rs.sampleOffset >= 0
  /\ last.f.called => RowsInTable(last.f)

\* C5 amended: for every cyclesPerSample >= 1024 (downsampling or equal
\* rates) sampleOffset is never negative, every fir(subcycle) made by
\* input() has 0 <= subcycle < 1024 and both rows lie in [0, firRES).
C5_Downsampling ==
  cfg.cyc >= 1024 =>
    /\ rs.sampleOffset >= 0
    /\ last.f.called => RowsInTable(last.f)

C5_Witness ==
  /\ cfg.cyc > 1024 /\ last.f.called
  /\ last.f.row1 = cfg.firRES - 1 /\ last.f.row2 = 0 /\ last.f.subcycle > 1000

\* C7: sample[i] = sample[i + RINGSIZE] for all i in [0, RINGSIZE); both
\* windows read by fir() lie inside [0, 2*RINGSIZE) and hold consecutive
\* input samples in arrival order, zeros at the positions not written since
\* construction or reset().
C7_DualRing ==
  gh.seq >= 1 =>
  /\ \A i \in 0 .. (RINGSIZE - 1) : rs.sample[i] = rs.sample[i + RINGSIZE]
  /\ last.f.called =>
       /\ last.f.start1 >= 0 /\ last.f.start2 >= 0
       /\ last.f.start1 + cfg.firN <= 2 * RINGSIZE
       /\ last.f.start2 + cfg.firN <= 2 * RINGSIZE
       /\ \A j \in 0 .. (cfg.firN - 1) :
            rs.sample[last.f.start1 + j] =
              IF WrittenSinceReset(cfg.firN - j) THEN last.x - (cfg.firN - j) ELSE 0

CacheRatios == {1999500, 1999504, 1500000}
ConcRatios == {1999500, 1999504}
ConcConfigs == {c \in ValidConfigs(ConcRatios) : c.N = 6}

RECURSIVE Scale6(_, _)
Scale6(u, k) == IF u < 1000000 * k THEN k ELSE Scale6(u, 10 * k)

\* o << cyclesPerSampleD: the double printed with six significant digits
Fmt6(u) ==
  LET k == Scale6(u, 1)
  IN ((u + k \div 2) \div k) * k

\* o << firN << "," << firRES << "," << cyclesPerSampleD
firKey(c) == <<c.firN, c.firRES, Fmt6(c.u)>>

CacheHitNever(ca, key) == FALSE

\* lb != FIR_CACHE.end() && !(FIR_CACHE.key_comp()(firKey, lb->first))
CacheHit(ca, key) == key \in DOMAIN ca

\* matrixf_t tempTable(firRES, firN): no coefficient computed yet
NewTable(ca, c) ==
  [id |-> Cardinality(DOMAIN ca) + 1, rows |-> c.firRES, filled |-> 0, srcs |-> {}]

\* FIR_CACHE.insert(lb, value_type(firKey, tempTable)): a present key keeps
\* its node
CacheInsert(ca, key, c) ==
  IF key \in DOMAIN ca THEN ca ELSE ca @@ (key :> NewTable(ca, c))

WriteRowElsewhere(ca, key, i, u) ==
  [ca EXCEPT ![key].srcs = @ \cup {u}]

\* one pass of the outer loop: (*firTable)[i][j] = ... for every j
WriteRow(ca, key, i, u) ==
  [ca EXCEPT ![key].filled = Max(@, i + 1), ![key].srcs = @ \cup {u}]

\* the whole double loop
WriteAllRows(ca, key, c) ==
  [ca EXCEPT ![key].filled = c.firRES, ![key].srcs = @ \cup {c.u}]

\* the constructor from the key onwards, run without interruption
CacheAfterConstruct(ca, c) ==
  IF CacheHit(ca, firKey(c)) THEN ca
  ELSE WriteAllRows(CacheInsert(ca, firKey(c), c), firKey(c), c)

(***************************************************************************)
(* Constructions one after the other (one thread)                          *)
(***************************************************************************)
InitCache ==
  /\ cache = <<>> /\ insts = <<>> /\ th = <<>> /\ cg = IdleCg
  /\ ResamplerIdle /\ IntegratorIdle /\ ArithIdle

Construct ==
  /\ Len(insts) < MaxInsts
  /\ \E c \in ValidConfigs(CacheRatios \cup DownRatios) :
       LET ca == CacheAfterConstruct(cache, c)
       IN /\ cache' = ca
          /\ insts' = Append(insts, [c |-> c, key |-> firKey(c),
                                     hit |-> CacheHit(cache, firKey(c)),
                                     firTable |-> ca[firKey(c)].id])
          /\ cg' = [cg EXCEPT !.created =
                      IF Cardinality(DOMAIN ca) > Cardinality(DOMAIN cache)
                      THEN Append(@, firKey(c)) ELSE @]
  /\ UNCHANGED <<th, resVars, intVars, ar>>

NextCache == Construct

SpecCache == InitCache /\ [][NextCache]_vars

NoDuplicates(q) == \A a, b \in 1 .. Len(q) : q[a] = q[b] => a = b

\* C3: the cache holds at most one entry per key, no entry is ever removed
\* or replaced, a construction whose key is present binds firTable to the
\* existing entry without adding an entry or changing a stored coefficient,
\* and two resamplers constructed with the same frequencies are bound to the
\* same entry.
C3_CacheStable ==
  [][/\ \A k \in DOMAIN cache : k \in DOMAIN cache' /\ cache'[k] = cache[k]
     /\ NoDuplicates(cg'.created)
     /\ Len(cg'.created) = Cardinality(DOMAIN cache')
     /\ \A a \in 1 .. Len(insts') :
          /\ insts'[a].firTable = cache'[insts'[a].key].id
          /\ cache'[insts'[a].key].filled = insts'[a].c.firRES
          /\ insts'[a].hit =>
               \E b \in 1 .. (a - 1) : insts'[b].firTable = insts'[a].firTable
     /\ \A a, b \in 1 .. Len(insts') :
          insts'[a].c = insts'[b].c => insts'[a].firTable = insts'[b].firTable
     /\ \A k, l \in DOMAIN cache' : cache'[k].id = cache'[l].id => k = l]_vars

C3_Witness ==
  /\ Len(insts) = 3
  /\ insts[1].c = insts[3].c /\ insts[3].hit /\ ~insts[1].hit
  /\ insts[2].c.u # insts[1].c.u /\ insts[2].key = insts[1].key /\ insts[2].hit
  /\ Cardinality(DOMAIN cache) = 1

(***************************************************************************)
(* Constructions on two threads, one step of the constructor at a time.    *)
(* The map's own operations are taken as atomic steps.                     *)
(***************************************************************************)
Threads == {1, 2}

IdleThread ==
  [pc |-> "idle", c |-> IdleCfg, key |-> <<>>, firTable |-> 0, i |-> 0, hit |-> FALSE]

Busy(t) == th[t].pc \in {"lookup", "insert", "fill"}

Returned(t) ==
  [c |-> th[t].c, key |-> th[t].key, hit |-> th[t].hit, firTable |-> th[t].firTable]

InitConc ==
  /\ cache = <<>> /\ insts = <<>> /\ cg = IdleCg
  /\ th = [t \in Threads |-> IdleThread]
  /\ ResamplerIdle /\ IntegratorIdle /\ ArithIdle

\* the constructor up to the key (lines 128-175)
Start(t) ==
  /\ th[t].pc \in {"idle", "done"}
  /\ Len(insts) + Cardinality({v \in Threads : Busy(v)}) < MaxRuns
  /\ \E c \in ConcConfigs :
       th' = [th EXCEPT ![t] = [IdleThread EXCEPT !.pc = "lookup", !.c = c,
                                                  !.key = firKey(c)]]
  /\ cg' = [cg EXCEPT !.overlapped = @ \/ \E v \in Threads \ {t} : Busy(v)]
  /\ UNCHANGED <<cache, insts, resVars, intVars, ar>>

\* lower_bound and the test of its result; on a hit the constructor returns
Lookup(t) ==
  /\ th[t].pc = "lookup"
  /\ IF CacheHit(cache, th[t].key)
     THEN /\ th' = [th EXCEPT ![t].pc = "done", ![t].hit = TRUE,
                              ![t].firTable = cache[th[t].key].id]
          /\ insts' = Append(insts, Returned(t)')
     ELSE /\ th' = [th EXCEPT ![t].pc = "insert"]
          /\ insts' = insts
  /\ UNCHANGED <<cache, cg, resVars, intVars, ar>>

\* the insertion of the table, before any coefficient is computed
Insert(t) ==
  /\ th[t].pc = "insert"
  /\ cache' = CacheInsert(cache, th[t].key, th[t].c)
  /\ th' = [th EXCEPT ![t].pc = "fill", ![t].i = 0,
                      ![t].firTable = cache'[th[t].key].id]
  /\ cg' = [cg EXCEPT !.created =
              IF Cardinality(DOMAIN cache') > Cardinality(DOMAIN cache)
              THEN Append(@, th[t].key) ELSE @]
  /\ UNCHANGED <<insts, resVars, intVars, ar>>

\* one pass of the outer fill loop, through the pointer into the cache;
\* after the last pass the constructor returns
FillRow(t) ==
  /\ th[t].pc = "fill"
  /\ th[t].i < th[t].c.firRES
  /\ cache' = WriteRow(cache, th[t].key, th[t].i, th[t].c.u)
  /\ cg' = [cg EXCEPT !.late = TRUE]
  /\ IF th[t].i + 1 = th[t].c.firRES
     THEN /\ th' = [th EXCEPT ![t].pc = "done", ![t].i = @ + 1]
          /\ insts' = Append(insts, Returned(t))
     ELSE /\ th' = [th EXCEPT ![t].i = @ + 1]
          /\ insts' = insts
  /\ UNCHANGED <<resVars, intVars, ar>>

NextConc == \E t \in Threads : Start(t) \/ Lookup(t) \/ Insert(t) \/ FillRow(t)

SpecConc == InitConc /\ [][NextConc]_vars

\* every instance whose constructor has returned points at a table whose
\* coefficients are all computed, by one ratio, and that nobody is writing
FinalTables ==
  \A a \in 1 .. Len(insts) :
    LET e == cache[insts[a].key]
    IN /\ insts[a].firTable = e.id
       /\ e.filled = e.rows
       /\ Cardinality(e.srcs) = 1
       /\ \A t \in Threads : th[t].pc = "fill" => th[t].key # insts[a].key

W16 == 2^16

Norm(hi, lo) == <<hi + lo \div W16, lo % W16>>

PAdd(a, b) == Norm(a[1] + b[1], a[2] + b[2])

PSub(a, b) == Norm(a[1] - b[1], a[2] - b[2])

PNeg(a) == PSub(<<0, 0>>, a)

\* the exact product of 0 <= a, b <= 2^17
PMul(a, b) ==
  LET p1 == a * (b \div 256)
      p0 == a * (b % 256)
  IN Norm(p1 \div 256, (p1 % 256) * 256 + p0)

\* the exact product of 0 <= a <= 2^17 and -2^17 <= b <= 2^17
PMulSigned(a, b) == IF b >= 0 THEN PMul(a, b) ELSE PNeg(PMul(a, 0 - b))

InI32(a) == a[1] >= 0 - 32768 /\ a[1] < 32768

\* unsigned int arithmetic: modulo 2^32
WrapU32(a) == <<a[1] % W16, a[2]>>

\* static_cast<int>(unsigned), and what a wrapping build makes of a signed
\* overflow: modulo 2^32 into [-2^31, 2^31)
WrapI32(a) == <<((a[1] + 32768) % W16) - 32768, a[2]>>

\* v >> k of an int, k = 14 or 15 (arithmetic shift)
Shr14(a) == a[1] * 4 + a[2] \div 16384
Shr15(a) == a[1] * 2 + a[2] \div 32768

(***************************************************************************)
(* Integrator8580                                                          *)
(***************************************************************************)
\* shapes of the reverse table the integrator is handed
Tables == {"zero", "mid", "max", "falling"}

\* opamp_rev[i], 0 <= i < 65536
OpampRev(kind, i) ==
  CASE kind = "zero" -> 0
    [] kind = "mid" -> 30000
    [] kind = "max" -> 65535
    [] OTHER -> 65535 - i

TableMax(kind) ==
  CASE kind = "zero" -> 0
    [] kind = "mid" -> 30000
    [] OTHER -> 65535

InTable(kind, v) ==
  CASE kind = "zero" -> v = 0
    [] kind = "mid" -> v = 30000
    [] kind = "max" -> v = 65535
    [] OTHER -> v \in 0 .. 65535

\* values of an unsigned short read outside the table
IndeterminateU16 == {0, 65535}

\* nVgt values setV() can leave, n_dac values setFc() can leave (both assert
\* -0.5 < tmp < 65535.5 and round), and input voltages
NVgtChoices == {0, 1, 40000, 65535}
NDacChoices == {0, 1000, 40000}
ViChoices == {0, 20000, 65535, 0 - 60000}

\* Vgst = nVgt - vx
solveVgst(nVgt, vx) == nVgt - vx

\* Vgdt = (vi < nVgt) ? nVgt - vi : 0
solveVgdt(nVgt, vi) == IF vi < nVgt THEN nVgt - vi ELSE 0

solveShift14(d) == Shr14(d)

\* static_cast<int>(Vgst_2 - Vgdt_2) >> 15
solveShift(d) == Shr15(d)

\* the current of one solve() step: every 32-bit intermediate, beside the
\* mathematical value it stands for
solveCurrent(n_dac, nVgt, vx, vi) ==
  LET Vgst == solveVgst(nVgt, vx)
      Vgdt == solveVgdt(nVgt, vi)
      sq1 == PMul(Vgst, Vgst)
      sq2 == PMul(Vgdt, Vgdt)
      Vgst_2 == WrapU32(sq1)
      Vgdt_2 == WrapU32(sq2)
      diff == PSub(sq1, sq2)
      conv == WrapI32(PSub(Vgst_2, Vgdt_2))
      sh == solveShift(conv)
      prod == PMulSigned(n_dac, sh)
  IN [Vgst_2 |-> Vgst_2, Vgdt_2 |-> Vgdt_2,
      squaresExact |-> (Vgst_2 = sq1 /\ Vgdt_2 = sq2),
      convExact |-> (conv = diff),
      shifted |-> sh,
      product |-> prod,
      productExact |-> InI32(prod),
      n_I_dac |-> WrapI32(prod)]

\* tmp = (vc >> 15) + (1 << 15)
solveIndex(vc) == Shr15(vc) + 32768

solveLookupIndex(kind, tmp) == tmp

\* vx = opamp_rev[tmp]
solveLookup(kind, tmp) == OpampRev(kind, tmp)

InitIntegrator ==
  /\ tbl \in Tables
  /\ \E nv \in NVgtChoices, nd \in NDacChoices :
       ig = [vx |-> 0, vc |-> <<0, 0>>, nVgt |-> nv, n_dac |-> nd, n |-> 0, oob |-> FALSE]
  /\ ipc = "run" /\ ilast = IdleILast
  /\ ResamplerIdle /\ CacheIdle /\ ArithIdle

\* setFc(wl), by the value its rounding leaves
SetFc ==
  /\ ipc = "run"
  /\ \E nd \in NDacChoices : ig' = [ig EXCEPT !.n_dac = nd]
  /\ UNCHANGED <<tbl, ipc, ilast, resVars, cacheVars, ar>>

\* setV(v), by the value its rounding leaves
SetV ==
  /\ ipc = "run"
  /\ \E nv \in NVgtChoices : ig' = [ig EXCEPT !.nVgt = nv]
  /\ UNCHANGED <<tbl, ipc, ilast, resVars, cacheVars, ar>>

\* solve(vi).  A failed assertion ends the run; a signed overflow either
\* wraps or traps; a read below the table yields any unsigned short.
Solve ==
  /\ ipc = "run"
  /\ ig.n < MaxSolves
  /\ \E vi \in ViChoices, trap \in BOOLEAN, g \in IndeterminateU16 :
       IF ~(ig.vx < ig.nVgt)
       THEN /\ ipc' = "assert_vx"
            /\ ilast' = [kind |-> "assert_vx", idx |-> 0, vi |-> vi, vo |-> 0]
            /\ ig' = [ig EXCEPT !.n = @ + 1]
       ELSE LET cur == solveCurrent(ig.n_dac, ig.nVgt, ig.vx, vi)
                sum == PAdd(ig.vc, cur.n_I_dac)
                exact == cur.productExact /\ InI32(sum)
                vc1 == WrapI32(sum)
                tmp == solveIndex(vc1)
            IN IF ~exact /\ trap
               THEN /\ ipc' = "overflow"
                    /\ ilast' = [kind |-> "overflow", idx |-> 0, vi |-> vi, vo |-> 0]
                    /\ ig' = [ig EXCEPT !.n = @ + 1]
               ELSE IF ~(tmp < 65536)
               THEN /\ ipc' = "assert_idx"
                    /\ ilast' = [kind |-> "assert_idx", idx |-> tmp, vi |-> vi, vo |-> 0]
                    /\ ig' = [ig EXCEPT !.n = @ + 1, !.vc = vc1]
               ELSE LET vx1 == IF tmp < 0 THEN g ELSE solveLookup(tbl, tmp)
                    IN /\ ipc' = "run"
                       /\ ilast' = [kind |-> IF tmp < 0 THEN "oob" ELSE "ok",
                                    idx |-> tmp, vi |-> vi,
                                    vo |-> vx1 - Shr14(vc1)]
                       /\ ig' = [ig EXCEPT !.n = @ + 1, !.vc = vc1, !.vx = vx1,
                                           !.oob = @ \/ tmp < 0]
  /\ UNCHANGED <<tbl, resVars, cacheVars, ar>>

NextIntegrator == SetFc \/ SetV \/ Solve

SpecIntegrator == InitIntegrator /\ [][NextIntegrator]_vars

C10_IndexInTable ==
  /\ ilast.kind \notin {"oob", "assert_idx"}
  /\ ilast.kind = "ok" => (ilast.idx >= 0 /\ ilast.idx < 65536)
  /\ ipc = "run" => (ig.vc[1] >= 0 - 16384 /\ ig.vc[1] < 16384)

(***************************************************************************)
(* The current computation of solve() as a function of its four inputs     *)
(***************************************************************************)
ArNDac == {0, 1, 32767, 32768, 65535}
ArNVgt == {1, 2, 30000, 46340, 46341, 65535}
ArVi == {0, 1, 30000, 46340, 46341, 65535}
ArVx(nVgt) == {v \in {0, 1, nVgt \div 2, nVgt - 1} : v >= 0 /\ v < nVgt}

InitArith ==
  /\ \E nd \in ArNDac, nv \in ArNVgt, vi \in ArVi :
       \E v \in ArVx(nv) :
         ar = [n_dac |-> nd, nVgt |-> nv, vx |-> v, vi |-> vi, done |-> FALSE, r |-> <<>>]
  /\ ResamplerIdle /\ CacheIdle /\ IntegratorIdle

Compute ==
  /\ ~ar.done
  /\ ar' = [ar EXCEPT !.done = TRUE,
                      !.r = solveCurrent(ar.n_dac, ar.nVgt, ar.vx, ar.vi)]
  /\ UNCHANGED <<resVars, cacheVars, intVars>>

NextArith == Compute

SpecArith == InitArith /\ [][NextArith]_vars

\* C9 as stated: for every n_dac in [0, 65535], nVgt in [1, 65535], vx in
\* [0, nVgt) and vi in [0, 65535], the squares Vgst^2 and Vgdt^2, the signed
\* conversion of their difference and the product n_dac * (difference >> 15)
\* computed in 32 bits equal their mathematical values.
C9_NoOverflow ==
  ar.done => (ar.r.squaresExact /\ ar.r.convExact /\ ar.r.productExact)

\* C9 amended: for those inputs the two squares always equal their
\* mathematical values as unsigned 32-bit numbers; the signed conversion of
\* their difference and the product n_dac * (difference >> 15) equal their
\* mathematical values whenever nVgt <= 46340 (so that both squares are
\* below 2^31) and n_dac <= 32767.
C9_NoOverflowInEnvelope ==
  ar.done =>
    /\ ar.r.squaresExact
    /\ (ar.nVgt <= 46340 /\ ar.n_dac <= 32767) =>
         /\ ar.r.convExact
         /\ ar.r.productExact
         /\ ar.r.n_I_dac = ar.r.product

C9_Witness ==
  /\ ar.done /\ ar.nVgt = 46340 /\ ar.n_dac = 32767
  /\ ar.vx = 0 /\ ar.vi = 65535
  /\ ar.r.shifted = 65533 /\ ar.r.product = <<32765, 32771>>

====
